---- MODULE Spec2Model ----
(***************************************************************************)
(* Model of co(), the promise scheduler of codelab-async-js, in its two    *)
(* versions: co-simple-solution.js (no error handling) and                 *)
(* solutions/generator-error-propagation-solution.js (onResolve/onReject). *)
(*                                                                         *)
(* A routine (generator function) is a script: the list of segments the    *)
(* generator body runs, one per resumption.  A segment ends in a yield of  *)
(* a promise, a yield of a plain value, a return or a throw, and says      *)
(* whether the suspension point it resumes from sits inside a try/catch.   *)
(* Promises yielded by the routine are settled by the environment.  Their  *)
(* callbacks run as jobs of one FIFO microtask queue, one job at a time.   *)
(*                                                                         *)
(* The module also models the hand-written state machines of the codelab   *)
(* (adder, counts, printer), each run call by call beside the generator it *)
(* is meant to stand for.                                                  *)
(***************************************************************************)
EXTENDS Integers, Sequences, FiniteSets, TLC

\* Bounds of the model.
MaxYields == 3      \* yields of one routine before it returns or throws
MaxVal == 3         \* promises resolve with one of 1..MaxVal
MaxCalls == 5       \* next/throw calls made on a state machine

Drivers == {"a", "b"}           \* co() calls the main program may make
Modes == {"simple", "error"}    \* which co() a call uses

VARIABLES
    toCall,       \* co() calls the main program has still to make
    called,       \* called[d]: co() has been called (g instantiated)
    mode,         \* mode[d]: the version of co() driving d
    gen,          \* gen[d]: the generator function passed to co()
    g,            \* g[d]: the generator object, const g = generator()
    result,       \* result[d]: the promise co() returned
    ops,          \* ops[d]: the promises the routine yielded, in order
    resumptions,  \* resumptions[d]: the g.next / g.throw calls made, in order
    jobs,         \* the microtask queue: promise reactions waiting to run
    unhandled,    \* unhandled[d]: faults that escaped a reaction callback
    sm,           \* the state machine under call: its kind and closure variables
    gn,           \* the generator of the same kind, given the same calls
    trace         \* the calls made, each with what the two returned or raised

coVars == <<toCall, called, mode, gen, g, result, ops, resumptions, jobs, unhandled>>
vars == <<toCall, called, mode, gen, g, result, ops, resumptions, jobs, unhandled,
          sm, gn, trace>>

----------------------------------------------------------------------------
\* JavaScript values: numbers, undefined, error objects, references to promises.
Num(n) == [t |-> "num", v |-> n]
Err(n) == [t |-> "err", v |-> n]
PromiseRef(i) == [t |-> "promise", v |-> i]
Undefined == [t |-> "undefined", v |-> 0]
NoFault == [t |-> "none", v |-> 0]

\* The faults a yielded promise rejects with, new Error('To fail, or to not fail.')
\* and one more, and an error the routine's own code raises.
OpFaults == {Err(1), Err(2)}
RoutineFault == Err(3)
\* The TypeError of reading .done of undefined or calling .then of a non-promise.
TypeError == Err(0)
\* A yielded item that is not a promise.
PlainItem == Num(0)

Values == {Num(n) : n \in 1..MaxVal}

----------------------------------------------------------------------------
\* Routines.
Acts == {"yieldPromise", "yieldPlain", "return", "throw"}
Segment == [act : Acts, handler : BOOLEAN]

IsRoutine(s) ==
    /\ Len(s) >= 1
    /\ ~s[1].handler
    /\ s[Len(s)].act \in {"return", "throw"}
    /\ \A i \in 1..(Len(s) - 1) : s[i].act \in {"yieldPromise", "yieldPlain"}

Routines ==
    UNION {{s \in [1..n -> Segment] : IsRoutine(s)} : n \in 1..(MaxYields + 1)}

\* The routine of the solutions: three yields of promises, the second in a try/catch.
asyncAdds ==
    <<[act |-> "yieldPromise", handler |-> FALSE],
      [act |-> "yieldPromise", handler |-> FALSE],
      [act |-> "yieldPromise", handler |-> TRUE],
      [act |-> "return", handler |-> FALSE]>>

\* A fresh generator object: suspended at its start.
generator == [pos |-> 0, done |-> FALSE, acc |-> 0]

\* One resumption of generator gs of script s: kind "next" passes arg as the
\* value of the pending yield, kind "throw" raises arg there.  item is the
\* thing a yield of this segment hands out.  The outcome is the new
\* generator, and either the {done, value} object or the fault raised.
Resume(s, gs, kind, arg, item) ==
    IF gs.done
    THEN IF kind = "throw"
         THEN [g |-> gs, thrown |-> arg, ret |-> [done |-> TRUE, value |-> Undefined]]
         ELSE [g |-> gs, thrown |-> NoFault, ret |-> [done |-> TRUE, value |-> Undefined]]
    ELSE LET seg == s[gs.pos + 1]
             acc == IF kind = "next" /\ arg.t = "num" THEN gs.acc + arg.v ELSE gs.acc
             fin == [pos |-> gs.pos + 1, done |-> TRUE, acc |-> acc]
         IN  IF kind = "throw" /\ (gs.pos = 0 \/ ~seg.handler)
             THEN [g |-> [gs EXCEPT !.done = TRUE], thrown |-> arg,
                   ret |-> [done |-> TRUE, value |-> Undefined]]
             ELSE CASE seg.act = "yieldPromise" ->
                         [g |-> [pos |-> gs.pos + 1, done |-> FALSE, acc |-> acc],
                          thrown |-> NoFault, ret |-> [done |-> FALSE, value |-> item]]
                    [] seg.act = "yieldPlain" ->
                         [g |-> [pos |-> gs.pos + 1, done |-> FALSE, acc |-> acc],
                          thrown |-> NoFault, ret |-> [done |-> FALSE, value |-> PlainItem]]
                    [] seg.act = "return" ->
                         [g |-> fin, thrown |-> NoFault,
                          ret |-> [done |-> TRUE, value |-> Num(acc)]]
                    [] seg.act = "throw" ->
                         [g |-> fin, thrown |-> RoutineFault,
                          ret |-> [done |-> TRUE, value |-> Undefined]]

----------------------------------------------------------------------------
\* F(v), with v worked out once.
With(v, F(_)) == CHOOSE x \in {F(c) : c \in {v}} : TRUE

\* Promises the routine yields.  A promise is created pending or already
\* settled (deferred(val), deferReject(e)).
Pending == [state |-> "pending", value |-> Undefined]
deferred(val) == [state |-> "fulfilled", value |-> val]
deferReject(e) == [state |-> "rejected", value |-> e]

NewPromises == {Pending} \cup {deferred(v) : v \in Values} \cup {deferReject(e) : e \in OpFaults}

\* The part of the state one run of a driver's code reads and writes:
\* D.g, D.result, D.ops, D.resumptions of driver D.d, the job queue D.jobs,
\* and D.thrown, the fault the code running has raised and not caught.
\* DriverState with the bug of a generator that is not the driver's own:
\* the callbacks of every driver resume the routine of driver "a".
DriverState_sharedRoutine(d) ==
    [d |-> d, gen |-> gen["a"], g |-> g["a"], result |-> result[d], ops |-> ops[d],
     resumptions |-> resumptions[d], jobs |-> jobs, thrown |-> NoFault]

DriverState(d) ==
    [d |-> d, gen |-> gen[d], g |-> g[d], result |-> result[d], ops |-> ops[d],
     resumptions |-> resumptions[d], jobs |-> jobs, thrown |-> NoFault]

\* reject with the bug of a result that is not write-once: a later fault
\* replaces an earlier outcome.
reject_overwrite(D, e) ==
    [D EXCEPT !.result = [state |-> "rejected", value |-> e]]

\* resolve and reject of the promise co() returns: the first call settles it.
resolve(D, value) ==
    IF D.result.state = "pending"
    THEN [D EXCEPT !.result = [state |-> "fulfilled", value |-> value]]
    ELSE D

reject(D, e) ==
    IF D.result.state = "pending"
    THEN [D EXCEPT !.result = [state |-> "rejected", value |-> e]]
    ELSE D

\* then with the bug of subscribing twice to the yielded promise.
then_twice(D, i) ==
    [D EXCEPT !.ops[i].subs = @ + 2,
              !.jobs = IF D.ops[i].state # "pending"
                       THEN @ \o <<[d |-> D.d, op |-> i], [d |-> D.d, op |-> i]>>
                       ELSE @]

\* ret.value.then(...): one more reaction on promise i; a settled promise
\* queues its job at once.
then(D, i) ==
    [D EXCEPT !.ops[i].subs = @ + 1,
              !.jobs = IF D.ops[i].state # "pending"
                       THEN Append(@, [d |-> D.d, op |-> i])
                       ELSE @]

\* Call with the bug of resuming by g.next() without the resolved value.
Call_noValue(D, kind, arg, p) ==
    With(Resume(D.gen, D.g, kind, IF kind = "next" THEN Undefined ELSE arg,
                PromiseRef(Len(D.ops) + 1)), LAMBDA r :
        [D |-> [D EXCEPT !.g = r.g,
                         !.resumptions = Append(@, [kind |-> kind,
                                                    arg |-> IF kind = "next" THEN Undefined
                                                                             ELSE arg]),
                         !.ops = IF ~r.ret.done /\ r.ret.value.t = "promise"
                                 THEN Append(@, [state |-> p.state, value |-> p.value,
                                                 subs |-> 0, fired |-> 0])
                                 ELSE @],
         thrown |-> r.thrown,
         ret |-> r.ret])

\* g.next(value) / g.throw(err) on the driver's generator; p is the promise
\* the routine creates if this resumption ends in a yield of a promise.
Call(D, kind, arg, p) ==
    With(Resume(D.gen, D.g, kind, arg, PromiseRef(Len(D.ops) + 1)), LAMBDA r :
        [D |-> [D EXCEPT !.g = r.g,
                         !.resumptions = Append(@, [kind |-> kind, arg |-> arg]),
                         !.ops = IF ~r.ret.done /\ r.ret.value.t = "promise"
                                 THEN Append(@, [state |-> p.state, value |-> p.value,
                                                 subs |-> 0, fired |-> 0])
                                 ELSE @],
         thrown |-> r.thrown,
         ret |-> r.ret])

\* next with the bug of resolve(ret) in place of resolve(ret.value): the
\* caller does not get the routine's return value.
next_noReturnValue(D, defined, ret) ==
    IF ~defined
    THEN [D EXCEPT !.thrown = TypeError]
    ELSE IF ret.done
         THEN resolve(D, Undefined)
         ELSE IF ret.value.t = "promise"
              THEN then(D, ret.value.v)
              ELSE [D EXCEPT !.thrown = TypeError]

\* next with the bug of subscribing twice to the promise it was yielded.
next_subscribeTwice(D, defined, ret) ==
    IF ~defined
    THEN [D EXCEPT !.thrown = TypeError]
    ELSE IF ret.done
         THEN resolve(D, ret.value)
         ELSE IF ret.value.t = "promise"
              THEN then(then(D, ret.value.v), ret.value.v)
              ELSE [D EXCEPT !.thrown = TypeError]

\* next(ret) of the error-handling co(); defined says whether ret was assigned.
next(D, defined, ret) ==
    IF ~defined
    THEN [D EXCEPT !.thrown = TypeError]
    ELSE IF ret.done
         THEN resolve(D, ret.value)
         ELSE IF ret.value.t = "promise"
              THEN then(D, ret.value.v)
              ELSE [D EXCEPT !.thrown = TypeError]

\* onResolve with the bug of a catch that does not reject.
onResolve_swallow(D, value, p) ==
    With(Call(D, "next", value, p), LAMBDA c :
        IF c.thrown # NoFault
        THEN next(c.D, FALSE, c.ret)
        ELSE next(c.D, TRUE, c.ret))

onResolve(D, value, p) ==
    With(Call(D, "next", value, p), LAMBDA c :
        IF c.thrown # NoFault
        THEN next(reject(c.D, c.thrown), FALSE, c.ret)
        ELSE next(c.D, TRUE, c.ret))

\* onReject with the bug of a catch that does not reject.
onReject_swallow(D, err, p) ==
    With(Call(D, "throw", err, p), LAMBDA c :
        IF c.thrown # NoFault
        THEN next(c.D, FALSE, c.ret)
        ELSE next(c.D, TRUE, c.ret))

\* onReject with the bug of g.next(err) in place of g.throw(err).
onReject_asValue(D, err, p) ==
    With(Call(D, "next", err, p), LAMBDA c :
        IF c.thrown # NoFault
        THEN next(reject(c.D, c.thrown), FALSE, c.ret)
        ELSE next(c.D, TRUE, c.ret))

\* onReject with the bug of rejecting with err before the routine has had
\* its chance to catch it.
onReject_leak(D, err, p) ==
    With(Call(reject(D, err), "throw", err, p), LAMBDA c :
        IF c.thrown # NoFault
        THEN next(reject(c.D, c.thrown), FALSE, c.ret)
        ELSE next(c.D, TRUE, c.ret))

onReject(D, err, p) ==
    With(Call(D, "throw", err, p), LAMBDA c :
        IF c.thrown # NoFault
        THEN next(reject(c.D, c.thrown), FALSE, c.ret)
        ELSE next(c.D, TRUE, c.ret))

\* next(nextVal) of the simple co().
nextSimple(D, nextVal, p) ==
    With(Call(D, "next", nextVal, p), LAMBDA c :
        IF c.thrown # NoFault
        THEN [c.D EXCEPT !.thrown = c.thrown]
        ELSE IF c.ret.done
             THEN resolve(c.D, c.ret.value)
             ELSE IF c.ret.value.t = "promise"
                  THEN then(c.D, c.ret.value.v)
                  ELSE [c.D EXCEPT !.thrown = TypeError])

\* The executor with the bug of leaving the first resumption out.
executor_noFirstResumption(D, m, p) == D

\* The executor with the bug of a Promise constructor that lets a fault of
\* its executor escape without rejecting.
executor_doesNotReject(D, m, p) ==
    IF m = "error" THEN onResolve(D, Undefined, p) ELSE nextSimple(D, Undefined, p)

\* The executor of new Promise(...): a fault it raises rejects the promise.
executor(D, m, p) ==
    With(IF m = "error" THEN onResolve(D, Undefined, p) ELSE nextSimple(D, Undefined, p),
         LAMBDA E :
            IF E.thrown # NoFault
            THEN [reject(E, E.thrown) EXCEPT !.thrown = NoFault]
            ELSE E)

\* reaction with the bug of then(onResolve) without onReject.
reaction_noOnReject(D, m, op, p) ==
    IF op.state = "fulfilled"
    THEN IF m = "error" THEN onResolve(D, op.value, p) ELSE nextSimple(D, op.value, p)
    ELSE [D EXCEPT !.thrown = op.value]

\* reaction with the bug of then(next, next) in the simple co(): a rejection
\* resumes the routine with the fault as its value.
reaction_simpleResumesOnFault(D, m, op, p) ==
    IF op.state = "fulfilled"
    THEN IF m = "error" THEN onResolve(D, op.value, p) ELSE nextSimple(D, op.value, p)
    ELSE IF m = "error" THEN onReject(D, op.value, p)
                        ELSE nextSimple(D, op.value, p)

\* The reaction of the driver to promise op, run off the job queue.  The
\* simple co() registers no rejection callback: the fault goes to the
\* promise then() derived, which nobody holds.
reaction(D, m, op, p) ==
    IF op.state = "fulfilled"
    THEN IF m = "error" THEN onResolve(D, op.value, p) ELSE nextSimple(D, op.value, p)
    ELSE IF m = "error" THEN onReject(D, op.value, p)
                        ELSE [D EXCEPT !.thrown = op.value]

----------------------------------------------------------------------------
\* The state machines of the codelab and the generators they stand for.

\* No state machine is under call.
NoMachine == [kind |-> "none"]

\* NaN, what + gives when an operand is undefined; and a + b on the values
\* of the model.
NaN == [t |-> "nan", v |-> 0]
Add(a, b) == IF a.t = "num" /\ b.t = "num" THEN Num(a.v + b.v) ELSE NaN

\* if (err) with the bug of a test for undefined alone: 0 counts as a fault.
Truthy_zeroIsFault(x) == x # Undefined

\* if (err): undefined, 0 and NaN are falsy, an error object is truthy.
Truthy(x) == x.t = "err" \/ (x.t = "num" /\ x.v # 0)

\* What a call gives its caller: the object {done, value}, an exception, or
\* undefined.
Ret(done, value) == [thrown |-> NoFault, obj |-> TRUE, done |-> done, value |-> value]
Raise(e) == [thrown |-> e, obj |-> FALSE, done |-> FALSE, value |-> Undefined]
NoRet == [thrown |-> NoFault, obj |-> FALSE, done |-> FALSE, value |-> Undefined]

\* What console.log has printed: values, and the two messages.
Starting == [t |-> "str", v |-> 0]
WeAreDone == [t |-> "str", v |-> 1]

\* The arguments the callers pass: add.next(), add.next(1), add.next(2),
\* add.next(4); add.throw(new Error('BOO)!')) and a throw of the falsy
\* undefined and 0.
Inputs == {Undefined, Num(1), Num(2), Num(4)}
ThrowArgs == {Err(1), Undefined, Num(0)}
InitialValues == {Num(0), Num(1)}

\* adder(initialValue) of the solution: the closure variables.
adder(initialValue) ==
    [state |-> "initial", done |-> FALSE, sum |-> initialValue,
     lastSum |-> Undefined, temp |-> Undefined, initialValue |-> initialValue]

\* go(input, err) that does not look at err in its first state.
adderGo_noCheckInInitial(m, input, err) ==
    CASE m.state = "initial" ->
            [m |-> [m EXCEPT !.temp = m.sum, !.state = "loop"],
             r |-> Ret(m.done, m.initialValue)]
      [] m.state = "loop" ->
            IF Truthy(err)
            THEN [m |-> [m EXCEPT !.sum = m.lastSum, !.state = "loop"],
                  r |-> Ret(m.done, m.lastSum)]
            ELSE [m |-> [m EXCEPT !.sum = Add(m.sum, input), !.lastSum = m.temp,
                                  !.temp = Add(m.sum, input), !.state = "loop"],
                  r |-> Ret(m.done, Add(m.sum, input))]
      [] OTHER -> [m |-> m, r |-> Ret(m.done, Undefined)]

\* go(input, err) with the bug of a generator that finishes when a fault is
\* thrown into its loop.
adderGo_finishesOnFault(m, input, err) ==
    CASE m.state = "initial" ->
            IF Truthy(err)
            THEN [m |-> m, r |-> Raise(err)]
            ELSE [m |-> [m EXCEPT !.temp = m.sum, !.state = "loop"],
                  r |-> Ret(m.done, m.initialValue)]
      [] m.state = "loop" ->
            IF Truthy(err)
            THEN [m |-> [m EXCEPT !.sum = m.lastSum, !.state = "done", !.done = TRUE],
                  r |-> Ret(TRUE, m.lastSum)]
            ELSE [m |-> [m EXCEPT !.sum = Add(m.sum, input), !.lastSum = m.temp,
                                  !.temp = Add(m.sum, input), !.state = "loop"],
                  r |-> Ret(m.done, Add(m.sum, input))]
      [] OTHER -> [m |-> m, r |-> Ret(m.done, Undefined)]

\* go(input, err) of adder.
adderGo(m, input, err) ==
    CASE m.state = "initial" ->
            IF Truthy(err)
            THEN [m |-> m, r |-> Raise(err)]
            ELSE [m |-> [m EXCEPT !.temp = m.sum, !.state = "loop"],
                  r |-> Ret(m.done, m.initialValue)]
      [] m.state = "loop" ->
            IF Truthy(err)
            THEN [m |-> [m EXCEPT !.sum = m.lastSum, !.state = "loop"],
                  r |-> Ret(m.done, m.lastSum)]
            ELSE [m |-> [m EXCEPT !.sum = Add(m.sum, input), !.lastSum = m.temp,
                                  !.temp = Add(m.sum, input), !.state = "loop"],
                  r |-> Ret(m.done, Add(m.sum, input))]
      [] OTHER -> [m |-> m, r |-> Ret(m.done, Undefined)]

\* next: go, and throw: function (err) { return go(undefined, err) }.
adderNext(m, input) == adderGo(m, input, Undefined)
adderThrow(m, err) == adderGo(m, Undefined, err)

\* adder(initialValue) without throw, and its go(input).
adderPlain(initialValue) ==
    [state |-> "initial", done |-> FALSE, sum |-> initialValue,
     initialValue |-> initialValue]

\* go(input) that adds its input in the first state too.
adderPlainGo_addsFirstInput(m, input) ==
    CASE m.state = "initial" ->
            [m |-> [m EXCEPT !.sum = Add(m.sum, input), !.state = "loop"],
             r |-> Ret(m.done, Add(m.sum, input))]
      [] m.state = "loop" ->
            [m |-> [m EXCEPT !.sum = Add(m.sum, input), !.state = "loop"],
             r |-> Ret(m.done, Add(m.sum, input))]
      [] OTHER -> [m |-> m, r |-> Ret(m.done, Undefined)]

adderPlainGo(m, input) ==
    CASE m.state = "initial" ->
            [m |-> [m EXCEPT !.state = "loop"], r |-> Ret(m.done, m.initialValue)]
      [] m.state = "loop" ->
            [m |-> [m EXCEPT !.sum = Add(m.sum, input), !.state = "loop"],
             r |-> Ret(m.done, Add(m.sum, input))]
      [] OTHER -> [m |-> m, r |-> Ret(m.done, Undefined)]

\* function* adder(initialValue) with try/catch: the generator object, at
\* its start, suspended at the yield, or finished; and one next or throw.
adderGen(initialValue) ==
    [pc |-> "start", sum |-> initialValue, lastSum |-> initialValue, temp |-> Undefined]

adderGenResume(gs, kind, arg) ==
    CASE gs.pc = "start" ->
            IF kind = "throw"
            THEN [g |-> [gs EXCEPT !.pc = "done"], r |-> Raise(arg)]
            ELSE [g |-> [gs EXCEPT !.pc = "yield", !.temp = gs.sum],
                  r |-> Ret(FALSE, gs.sum)]
      [] gs.pc = "yield" ->
            IF kind = "throw"
            THEN [g |-> [gs EXCEPT !.sum = gs.lastSum, !.temp = gs.lastSum],
                  r |-> Ret(FALSE, gs.lastSum)]
            ELSE [g |-> [gs EXCEPT !.sum = Add(gs.sum, arg), !.lastSum = gs.temp,
                                   !.temp = Add(gs.sum, arg)],
                  r |-> Ret(FALSE, Add(gs.sum, arg))]
      [] OTHER ->
            IF kind = "throw"
            THEN [g |-> gs, r |-> Raise(arg)]
            ELSE [g |-> gs, r |-> Ret(TRUE, Undefined)]

\* function* adder(initialValue) without try/catch: sum += yield sum.
adderPlainGen(initialValue) == [pc |-> "start", sum |-> initialValue]

adderPlainGenNext(gs, arg) ==
    CASE gs.pc = "start" -> [g |-> [gs EXCEPT !.pc = "yield"], r |-> Ret(FALSE, gs.sum)]
      [] gs.pc = "yield" ->
            [g |-> [gs EXCEPT !.sum = Add(gs.sum, arg)], r |-> Ret(FALSE, Add(gs.sum, arg))]
      [] OTHER -> [g |-> gs, r |-> Ret(TRUE, Undefined)]

\* counts(start) as a state machine, and its go().
counts(start) == [state |-> 0, done |-> FALSE, start |-> start]

\* go() that forgets done = true in its last state.
countsGo_neverDone(m) ==
    CASE m.state = 0 -> [m |-> [m EXCEPT !.state = 1], r |-> Ret(m.done, Add(m.start, Num(1)))]
      [] m.state = 1 -> [m |-> [m EXCEPT !.state = 2], r |-> Ret(m.done, Add(m.start, Num(2)))]
      [] m.state = 2 -> [m |-> [m EXCEPT !.state = 3], r |-> Ret(m.done, Add(m.start, Num(3)))]
      [] m.state = 3 -> [m |-> [m EXCEPT !.state = -1], r |-> Ret(m.done, Add(m.start, Num(4)))]
      [] OTHER -> [m |-> m, r |-> Ret(m.done, Undefined)]

countsGo(m) ==
    CASE m.state = 0 -> [m |-> [m EXCEPT !.state = 1], r |-> Ret(m.done, Add(m.start, Num(1)))]
      [] m.state = 1 -> [m |-> [m EXCEPT !.state = 2], r |-> Ret(m.done, Add(m.start, Num(2)))]
      [] m.state = 2 -> [m |-> [m EXCEPT !.state = 3], r |-> Ret(m.done, Add(m.start, Num(3)))]
      [] m.state = 3 -> [m |-> [m EXCEPT !.state = -1, !.done = TRUE],
                         r |-> Ret(TRUE, Add(m.start, Num(4)))]
      [] OTHER -> [m |-> m, r |-> Ret(m.done, Undefined)]

\* function* counts(start): three yields and a return.
countsGen(start) == [pc |-> 0, start |-> start]

countsGenNext(gs) ==
    IF gs.pc < 3
    THEN [g |-> [gs EXCEPT !.pc = @ + 1], r |-> Ret(FALSE, Add(gs.start, Num(gs.pc + 1)))]
    ELSE IF gs.pc = 3
         THEN [g |-> [gs EXCEPT !.pc = 4], r |-> Ret(TRUE, Add(gs.start, Num(4)))]
         ELSE [g |-> gs, r |-> Ret(TRUE, Undefined)]

\* printer() as a state machine, and its go(input): the return statement
\* sits inside the switch after the last break, so go returns undefined.
printer == [state |-> 0, done |-> FALSE, log |-> <<>>]

\* go(input) that logs its input in state 0 as well.
printerGo_logsFirstInput(m, input) ==
    CASE m.state = 0 -> [m |-> [m EXCEPT !.log = @ \o <<Starting, input>>, !.state = 1],
                         r |-> NoRet]
      [] m.state = 1 -> [m |-> [m EXCEPT !.log = Append(@, input), !.state = 2], r |-> NoRet]
      [] m.state = 2 -> [m |-> [m EXCEPT !.log = Append(@, input), !.state = 3], r |-> NoRet]
      [] m.state = 3 -> [m |-> [m EXCEPT !.log = @ \o <<input, WeAreDone>>, !.done = TRUE,
                                        !.state = -1],
                         r |-> NoRet]
      [] OTHER -> [m |-> m, r |-> NoRet]

printerGo(m, input) ==
    CASE m.state = 0 -> [m |-> [m EXCEPT !.log = Append(@, Starting), !.state = 1], r |-> NoRet]
      [] m.state = 1 -> [m |-> [m EXCEPT !.log = Append(@, input), !.state = 2], r |-> NoRet]
      [] m.state = 2 -> [m |-> [m EXCEPT !.log = Append(@, input), !.state = 3], r |-> NoRet]
      [] m.state = 3 -> [m |-> [m EXCEPT !.log = @ \o <<input, WeAreDone>>, !.done = TRUE,
                                        !.state = -1],
                         r |-> NoRet]
      [] OTHER -> [m |-> m, r |-> NoRet]

\* function* printer(): console.log(yield) three times.
printerGen == [pc |-> 0, log |-> <<>>]

printerGenNext(gs, arg) ==
    IF gs.pc = 0
    THEN [g |-> [gs EXCEPT !.pc = 1, !.log = Append(@, Starting)], r |-> Ret(FALSE, Undefined)]
    ELSE IF gs.pc < 3
         THEN [g |-> [gs EXCEPT !.pc = @ + 1, !.log = Append(@, arg)],
               r |-> Ret(FALSE, Undefined)]
         ELSE IF gs.pc = 3
              THEN [g |-> [gs EXCEPT !.pc = 4, !.log = @ \o <<arg, WeAreDone>>],
                    r |-> Ret(TRUE, Undefined)]
              ELSE [g |-> gs, r |-> Ret(TRUE, Undefined)]

----------------------------------------------------------------------------
\* Before the main program has called co(): it will call it once.
Init ==
    /\ toCall = {"a"}
    /\ called = [d \in Drivers |-> FALSE]
    /\ mode = [d \in Drivers |-> "simple"]
    /\ gen = [d \in Drivers |-> <<>>]
    /\ g = [d \in Drivers |-> generator]
    /\ result = [d \in Drivers |-> [state |-> "pending", value |-> Undefined]]
    /\ ops = [d \in Drivers |-> <<>>]
    /\ resumptions = [d \in Drivers |-> <<>>]
    /\ jobs = <<>>
    /\ unhandled = [d \in Drivers |-> <<>>]
    /\ sm = NoMachine /\ gn = NoMachine /\ trace = <<>>

\* Writes back what a run of driver d's code left in D.
Commit(d, D) ==
    /\ g' = [g EXCEPT ![d] = D.g]
    /\ result' = [result EXCEPT ![d] = D.result]
    /\ ops' = [ops EXCEPT ![d] = D.ops]
    /\ resumptions' = [resumptions EXCEPT ![d] = D.resumptions]
    /\ unhandled' = [unhandled EXCEPT ![d] =
                        IF D.thrown # NoFault THEN Append(@, D.thrown) ELSE @]

\* co(generator): creates the promise, instantiates the generator and makes
\* the first resumption, all before it returns.  The generator function and
\* the version of co() are the caller's choice.
co(d) ==
    /\ d \in toCall
    /\ \E s \in Routines, m \in Modes, p \in NewPromises :
          \E D \in {executor([DriverState(d) EXCEPT !.gen = s, !.g = generator], m, p)} :
              /\ toCall' = toCall \ {d}
              /\ called' = [called EXCEPT ![d] = TRUE]
              /\ mode' = [mode EXCEPT ![d] = m]
              /\ gen' = [gen EXCEPT ![d] = s]
              /\ jobs' = D.jobs
              /\ Commit(d, D)
    /\ UNCHANGED <<sm, gn, trace>>

\* A pending promise settles: with a value or with a fault.  Its reactions
\* are queued.
Settle(d, i) ==
    /\ i \in 1..Len(ops[d])
    /\ ops[d][i].state = "pending"
    /\ \E o \in NewPromises \ {Pending} :
          /\ ops' = [ops EXCEPT ![d][i].state = o.state, ![d][i].value = o.value]
          /\ jobs' = jobs \o [k \in 1..ops[d][i].subs |-> [d |-> d, op |-> i]]
    /\ UNCHANGED <<toCall, called, mode, gen, g, result, resumptions, unhandled>>
    /\ UNCHANGED <<sm, gn, trace>>

\* The event loop runs the job at the head of the microtask queue.
RunJob ==
    /\ jobs # <<>>
    /\ LET j == Head(jobs)
           d == j.d
           D0 == [DriverState(d) EXCEPT !.jobs = Tail(jobs), !.ops[j.op].fired = @ + 1]
       IN  \E p \in NewPromises :
              \E D \in {reaction(D0, mode[d], ops[d][j.op], p)} :
                  /\ jobs' = D.jobs
                  /\ Commit(d, D)
    /\ UNCHANGED <<toCall, called, mode, gen>>
    /\ UNCHANGED <<sm, gn, trace>>

Next ==
    \/ \E d \in Drivers : co(d)
    \/ \E d \in Drivers, i \in 1..MaxYields : Settle(d, i)
    \/ RunJob

Spec == Init /\ [][Next]_vars

\* The main program will call co() twice, and the two drives share the event
\* loop.
InitTwo ==
    /\ toCall = Drivers
    /\ called = [d \in Drivers |-> FALSE]
    /\ mode = [d \in Drivers |-> "simple"]
    /\ gen = [d \in Drivers |-> <<>>]
    /\ g = [d \in Drivers |-> generator]
    /\ result = [d \in Drivers |-> [state |-> "pending", value |-> Undefined]]
    /\ ops = [d \in Drivers |-> <<>>]
    /\ resumptions = [d \in Drivers |-> <<>>]
    /\ jobs = <<>>
    /\ unhandled = [d \in Drivers |-> <<>>]
    /\ sm = NoMachine /\ gn = NoMachine /\ trace = <<>>

\* The generator functions the two calls are given: two yields of promises,
\* the second inside a try/catch or not, then a return.
RoutinesOfTwo ==
    {s \in Routines :
        /\ Len(s) = 3
        /\ \A i \in 1..2 : s[i].act = "yieldPromise"
        /\ s[3] = [act |-> "return", handler |-> FALSE]}

\* co(generator), one of the two calls.
coOfTwo(d) ==
    /\ d \in toCall
    /\ \E s \in RoutinesOfTwo, m \in Modes, p \in NewPromises :
          \E D \in {executor([DriverState(d) EXCEPT !.gen = s, !.g = generator], m, p)} :
              /\ toCall' = toCall \ {d}
              /\ called' = [called EXCEPT ![d] = TRUE]
              /\ mode' = [mode EXCEPT ![d] = m]
              /\ gen' = [gen EXCEPT ![d] = s]
              /\ jobs' = D.jobs
              /\ Commit(d, D)
    /\ UNCHANGED <<sm, gn, trace>>

NextTwo ==
    \/ \E d \in Drivers : coOfTwo(d)
    \/ \E d \in Drivers, i \in 1..MaxYields : Settle(d, i)
    \/ RunJob

SpecTwo == InitTwo /\ [][NextTwo]_vars

\* A state machine and its generator, just constructed, before any call.
InitMachines ==
    /\ toCall = {}
    /\ called = [d \in Drivers |-> FALSE]
    /\ mode = [d \in Drivers |-> "simple"]
    /\ gen = [d \in Drivers |-> <<>>]
    /\ g = [d \in Drivers |-> generator]
    /\ result = [d \in Drivers |-> [state |-> "pending", value |-> Undefined]]
    /\ ops = [d \in Drivers |-> <<>>]
    /\ resumptions = [d \in Drivers |-> <<>>]
    /\ jobs = <<>>
    /\ unhandled = [d \in Drivers |-> <<>>]
    /\ trace = <<>>
    /\ \/ \E i \in InitialValues :
             /\ sm = [kind |-> "adder", m |-> adder(i)]
             /\ gn = [kind |-> "adder", g |-> adderGen(i)]
       \/ \E i \in InitialValues :
             /\ sm = [kind |-> "adderPlain", m |-> adderPlain(i)]
             /\ gn = [kind |-> "adderPlain", g |-> adderPlainGen(i)]
       \/ \E i \in InitialValues :
             /\ sm = [kind |-> "counts", m |-> counts(i)]
             /\ gn = [kind |-> "counts", g |-> countsGen(i)]
       \/ /\ sm = [kind |-> "printer", m |-> printer]
          /\ gn = [kind |-> "printer", g |-> printerGen]

\* One call, made on the state machine and on the generator alike.
Record(kind, arg, a, b) ==
    /\ sm' = [sm EXCEPT !.m = a.m]
    /\ gn' = [gn EXCEPT !.g = b.g]
    /\ trace' = Append(trace, [kind |-> kind, arg |-> arg, sm |-> a.r, gn |-> b.r])
    /\ UNCHANGED coVars

\* add.next(v) on the adder with throw.
AdderNext(v) ==
    /\ sm.kind = "adder" /\ Len(trace) < MaxCalls
    /\ Record("next", v, adderNext(sm.m, v), adderGenResume(gn.g, "next", v))

\* add.throw(e) on the adder with throw.
AdderThrow(e) ==
    /\ sm.kind = "adder" /\ Len(trace) < MaxCalls
    /\ Record("throw", e, adderThrow(sm.m, e), adderGenResume(gn.g, "throw", e))

\* add.next(v) on the adder without throw.
AdderPlainNext(v) ==
    /\ sm.kind = "adderPlain" /\ Len(trace) < MaxCalls
    /\ Record("next", v, adderPlainGo(sm.m, v), adderPlainGenNext(gn.g, v))

\* counter.next() on counts.
CountsNext ==
    /\ sm.kind = "counts" /\ Len(trace) < MaxCalls + 1
    /\ Record("next", Undefined, countsGo(sm.m), countsGenNext(gn.g))

\* counter.next(v) on printer.
PrinterNext(v) ==
    /\ sm.kind = "printer" /\ Len(trace) < MaxCalls
    /\ Record("next", v, printerGo(sm.m, v), printerGenNext(gn.g, v))

NextMachines ==
    \/ \E v \in Inputs : AdderNext(v)
    \/ \E e \in ThrowArgs : AdderThrow(e)
    \/ \E v \in Inputs : AdderPlainNext(v)
    \/ CountsNext
    \/ \E v \in Inputs : PrinterNext(v)

SpecMachines == InitMachines /\ [][NextMachines]_vars

\* Every job queued is run, and every pending promise settles (a run settles
\* finitely many promises, so fairness to their settling as a whole is
\* fairness to each).
FairSpec ==
    /\ Spec
    /\ WF_vars(RunJob)
    /\ WF_vars(\E d \in Drivers, i \in 1..MaxYields : Settle(d, i))

----------------------------------------------------------------------------
\* What a state says about the routine of driver d.

\* Every yield of script s hands out a promise.
OnlyPromises(s) == \A i \in 1..Len(s) : s[i].act # "yieldPlain"

\* The last resumption ran the return of the script: it gave {done: true}.
Returned(d) ==
    /\ called[d] /\ g[d].done
    /\ g[d].pos = Len(gen[d])
    /\ gen[d][Len(gen[d])].act = "return"

\* All promises the routine yielded were fulfilled.
AllFulfilled(d) == \A i \in 1..Len(ops[d]) : ops[d][i].state = "fulfilled"

\* C1: a routine that yields N promises which all settle successfully and
\* then finishes is resumed exactly N+1 times, by g.next each time: the first
\* time with no value and the k-th time (k >= 2) with the value the (k-1)-th
\* promise resolved with.  Both versions of co().
InvC1_ResumptionsCarryResolvedValues ==
    \A d \in Drivers :
        (Returned(d) /\ OnlyPromises(gen[d]) /\ AllFulfilled(d)) =>
            LET N == Len(gen[d]) - 1
            IN  /\ Len(ops[d]) = N
                /\ Len(resumptions[d]) = N + 1
                /\ resumptions[d][1] = [kind |-> "next", arg |-> Undefined]
                /\ \A k \in 2..(N + 1) :
                      resumptions[d][k] = [kind |-> "next", arg |-> ops[d][k - 1].value]

\* Witness of C1: a routine of three yields has returned, its three promises
\* fulfilled with different values.
WitC1_ThreeYieldsDone ==
    \E d \in Drivers :
        /\ Returned(d) /\ OnlyPromises(gen[d]) /\ AllFulfilled(d)
        /\ Len(ops[d]) = 3
        /\ mode[d] = "simple"
        /\ ops[d][1].value # ops[d][2].value
        /\ ops[d][2].value # ops[d][3].value

\* C2: once a resumption has returned {done: true, value: r}, the promise
\* co() returned is fulfilled with r and the routine has not been resumed
\* since (as many resumptions as segments run); a routine that returns
\* without a yield was resumed once; a routine that adds up three promises
\* resolved with 1, 2, 3 gives 6.
InvC2_FinishedResolvesWithReturnValue ==
    \A d \in Drivers :
        Returned(d) =>
            /\ result[d] = [state |-> "fulfilled", value |-> Num(g[d].acc)]
            /\ Len(resumptions[d]) = g[d].pos
            /\ (Len(gen[d]) = 1 => Len(resumptions[d]) = 1)
            /\ (/\ Len(ops[d]) = 3
                /\ \A i \in 1..3 : ops[d][i] = [state |-> "fulfilled", value |-> Num(i),
                                                  subs |-> 1, fired |-> 1])
                  => result[d].value = Num(6)

\* Witness of C2: the routine that added up 1, 2, 3 has returned.
WitC2_SumOfThree ==
    \E d \in Drivers :
        /\ Returned(d) /\ mode[d] = "error"
        /\ Len(ops[d]) = 3
        /\ \A i \in 1..3 : ops[d][i].state = "fulfilled" /\ ops[d][i].value = Num(i)
        /\ result[d].value = Num(6)

\* The fault the routine raised, if it did: by the throw of its last segment,
\* or by a fault injected where no try/catch covers the suspension point.
ThrewByScript(d) ==
    /\ called[d] /\ g[d].done
    /\ g[d].pos = Len(gen[d])
    /\ gen[d][Len(gen[d])].act = "throw"

ThrewInjected(d) == called[d] /\ g[d].done /\ g[d].pos < Len(gen[d])

RaisedFault(d) ==
    IF ThrewInjected(d) THEN resumptions[d][g[d].pos + 1].arg ELSE RoutineFault

\* C3: error-handling co(): once a promise that rejected has been delivered
\* to a routine with no try/catch at that suspension point, the promise co()
\* returned is rejected with the same fault, the delivery was a g.throw, and
\* no resumption has followed it.
InvC3_UnhandledFaultRejects ==
    \A d \in Drivers : \A i \in 1..Len(ops[d]) :
        (/\ mode[d] = "error"
         /\ ops[d][i].state = "rejected" /\ ops[d][i].fired >= 1
         /\ ~gen[d][i + 1].handler)
        => /\ result[d] = [state |-> "rejected", value |-> ops[d][i].value]
           /\ Len(resumptions[d]) = i + 1
           /\ resumptions[d][i + 1].kind = "throw"

\* Witness of C3: the second promise rejected and the routine did not catch.
WitC3_SecondPromiseFailed ==
    \E d \in Drivers :
        /\ mode[d] = "error" /\ Len(ops[d]) = 2
        /\ ops[d][2].state = "rejected" /\ ops[d][2].fired = 1
        /\ ~gen[d][3].handler
        /\ result[d].state = "rejected"

\* The routine of d returns in the end and has a try/catch around every yield
\* whose promise rejected.
Recovers(d) ==
    /\ called[d] /\ mode[d] = "error"
    /\ OnlyPromises(gen[d])
    /\ gen[d][Len(gen[d])].act = "return"
    /\ \A i \in 1..Len(ops[d]) : ops[d][i].state = "rejected" => gen[d][i + 1].handler

CaughtOne(d) ==
    \E i \in 1..Len(ops[d]) :
        ops[d][i].state = "rejected" /\ ops[d][i].fired >= 1 /\ gen[d][i + 1].handler

\* C4: error-handling co(): when a promise rejected and the routine caught
\* the fault and went on, the promise co() returned is never rejected, it is
\* fulfilled with the routine's return value once the routine has returned,
\* and it is fulfilled in the end (unless a later promise rejects where the
\* routine has no try/catch).
ThmC4_RecoveredFaultDoesNotLeak ==
    /\ [](\A d \in Drivers :
            (Recovers(d) /\ CaughtOne(d)) =>
                /\ result[d].state # "rejected"
                /\ g[d].done => result[d] = [state |-> "fulfilled", value |-> Num(g[d].acc)])
    /\ \A d \in Drivers :
            (Recovers(d) /\ CaughtOne(d)) ~> (~Recovers(d) \/ result[d].state = "fulfilled")

\* Witness of C4: asyncAdds, whose second promise rejected, has returned.
WitC4_AsyncAddsRecovered ==
    \E d \in Drivers :
        /\ Recovers(d) /\ CaughtOne(d)
        /\ gen[d] = asyncAdds
        /\ ops[d][2].state = "rejected"
        /\ g[d].done /\ result[d].state = "fulfilled"

\* C5: error-handling co(): the k-th resumption (k >= 2) delivers the outcome
\* of the (k-1)-th promise, the one yielded at the suspension point resumed:
\* g.throw(f) if it rejected with f, g.next(v) if it resolved with v; and a
\* promise whose reaction has run has been delivered.
InvC5_FaultInjectedValuePassed ==
    \A d \in Drivers :
        mode[d] = "error" =>
            /\ \A k \in 2..Len(resumptions[d]) :
                  /\ k - 1 <= Len(ops[d])
                  /\ ops[d][k - 1].state # "pending"
                  /\ resumptions[d][k] =
                        [kind |-> IF ops[d][k - 1].state = "rejected" THEN "throw" ELSE "next",
                         arg |-> ops[d][k - 1].value]
            /\ \A i \in 1..Len(ops[d]) :
                  ops[d][i].fired >= 1 => Len(resumptions[d]) >= i + 1

\* Witness of C5: a fault was injected and, later, a value passed.
WitC5_ThrowThenNext ==
    \E d \in Drivers :
        /\ mode[d] = "error" /\ Len(resumptions[d]) = 3
        /\ resumptions[d][2].kind = "throw"
        /\ resumptions[d][3].kind = "next"

\* The promises driver d has subscribed to and that have not settled.
Outstanding(d) ==
    {i \in 1..Len(ops[d]) : ops[d][i].subs > 0 /\ ops[d][i].state = "pending"}

\* C6: a driver has at most one subscribed, unsettled promise; it subscribes
\* once to a promise; and a step that resumes the routine is taken only when
\* every promise the routine yielded before has settled and been delivered.
ThmC6_OneOutstandingStrictAlternation ==
    /\ [](\A d \in Drivers :
            /\ Cardinality(Outstanding(d)) <= 1
            /\ \A i \in 1..Len(ops[d]) : ops[d][i].subs <= 1 /\ ops[d][i].fired <= 1
            /\ Len(ops[d]) <= Len(resumptions[d]))
    /\ [][\A d \in Drivers :
            resumptions'[d] # resumptions[d] =>
                /\ Len(resumptions'[d]) = Len(resumptions[d]) + 1
                /\ \A i \in 1..Len(ops[d]) : ops[d][i].state # "pending"
                /\ \A i \in 1..Len(ops'[d]) : i <= Len(resumptions[d]) => ops'[d][i].fired = 1]_vars

\* Witness of C6: one promise is outstanding after two were delivered.
WitC6_ThirdOutstanding ==
    \E d \in Drivers : Outstanding(d) = {3} /\ Len(resumptions[d]) = 3

\* C7: error-handling co(): once a resumption of the routine has raised e
\* (the routine's own throw, on the first or a later resumption or in a
\* catch, or an injected fault it does not catch), the promise co() returned
\* is rejected with e and that resumption is the last one.
InvC7_RoutineFaultRejects ==
    \A d \in Drivers :
        (mode[d] = "error" /\ (ThrewByScript(d) \/ ThrewInjected(d))) =>
            /\ result[d] = [state |-> "rejected", value |-> RaisedFault(d)]
            /\ Len(resumptions[d]) = IF ThrewInjected(d) THEN g[d].pos + 1 ELSE g[d].pos

\* Witness of C7: the routine caught an injected fault and raised its own.
WitC7_CatchAndRaiseAnother ==
    \E d \in Drivers :
        /\ mode[d] = "error" /\ ThrewByScript(d)
        /\ Len(resumptions[d]) = 2
        /\ resumptions[d][2].kind = "throw"
        /\ result[d] = [state |-> "rejected", value |-> RoutineFault]

\* The routine is suspended at a yield of a plain value.
YieldedPlain(d) ==
    /\ called[d] /\ ~g[d].done /\ g[d].pos >= 1
    /\ gen[d][g[d].pos].act = "yieldPlain"

\* C8 as claimed: once a resumption, the first or a later one, has yielded
\* an item that is no promise, the promise co() returned is rejected with
\* the protocol fault, and the routine is not resumed again.
InvC8_PlainYieldRejects ==
    \A d \in Drivers :
        YieldedPlain(d) =>
            /\ result[d] = [state |-> "rejected", value |-> TypeError]
            /\ Len(resumptions[d]) = g[d].pos

\* C9: the promise co() returned does not change once settled, and when it
\* is rejected the fault is the first one raised in the drive and not
\* caught: the fault the routine raised if it raised one (not the TypeError
\* of reading .done of the undefined ret that follows it), the simple
\* co()'s none, and else the TypeError of a first yield that is no promise;
\* a rejected result was never fulfilled, and a fulfilled one holds the
\* value the routine returned.
ThmC9_SettledOnceWithFirstFault ==
    /\ [][\A d \in Drivers : result[d].state # "pending" => result'[d] = result[d]]_vars
    /\ [](\A d \in Drivers :
            /\ result[d].state = "rejected" =>
                  IF ThrewByScript(d) \/ ThrewInjected(d)
                  THEN result[d].value = RaisedFault(d)
                  ELSE result[d].value = TypeError /\ YieldedPlain(d) /\ g[d].pos = 1
            /\ result[d].state = "fulfilled" =>
                  Returned(d) /\ result[d].value = Num(g[d].acc)
            /\ result[d].state = "pending" => result[d].value = Undefined)

\* Witness of C9: the routine raised in a reaction callback, so that the
\* TypeError of next(undefined) followed the reject.
WitC9_RejectThenTypeError ==
    \E d \in Drivers :
        /\ mode[d] = "error" /\ ThrewByScript(d)
        /\ Len(resumptions[d]) = 3
        /\ result[d] = [state |-> "rejected", value |-> RoutineFault]
        /\ unhandled[d] = <<TypeError>>

\* Nothing is left that would resume the routine of d: no promise it waits
\* for, no reaction queued.
Quiescent(d) ==
    /\ Outstanding(d) = {}
    /\ \A k \in 1..Len(jobs) : jobs[k].d # d

\* C10: error-handling co(): under fairness, if every yield of the routine
\* hands out a promise, the promise co() returned is settled in the end; and
\* the drive is never at rest, the routine suspended or finished, with that
\* promise still pending.
ThmC10_DriveSettles ==
    /\ \A d \in Drivers :
          (called[d] /\ mode[d] = "error" /\ OnlyPromises(gen[d]))
              ~> (result[d].state # "pending")
    /\ [](\A d \in Drivers :
            (called[d] /\ mode[d] = "error" /\ OnlyPromises(gen[d]) /\ Quiescent(d))
                => result[d].state # "pending")

\* Witness of C10: a drive of three promises that were yielded pending, one
\* of which rejected, has settled.
WitC10_LongDriveSettled ==
    \E d \in Drivers :
        /\ called[d] /\ mode[d] = "error" /\ OnlyPromises(gen[d])
        /\ Len(ops[d]) = 3
        /\ \E i \in 1..3 : ops[d][i].state = "rejected"
        /\ result[d].state # "pending"

\* C11 as claimed (the README's rule): an item a resumption yields that is
\* no promise is passed back, that is, the routine has been resumed by
\* g.next with that item.
InvC11_PlainItemPassedBack ==
    \A d \in Drivers :
        called[d] =>
            \A k \in 1..g[d].pos :
                (gen[d][k].act = "yieldPlain" /\ (k < g[d].pos \/ ~g[d].done)) =>
                    /\ Len(resumptions[d]) > k
                    /\ resumptions[d][k + 1] = [kind |-> "next", arg |-> PlainItem]


----------------------------------------------------------------------------
\* The ledger the adder is meant to keep: after the first k calls (the first
\* being next()), the sum and the sum as it was before the most recent
\* addition. An addition moves the sum into `last`; a throw takes it back.
RECURSIVE Ledger(_)
Ledger(k) ==
    IF k <= 1
    THEN [sum |-> sm.m.initialValue, last |-> sm.m.initialValue]
    ELSE LET p == Ledger(k - 1)
             c == trace[k]
         IN  IF c.kind = "throw"
             THEN [sum |-> p.last, last |-> p.last]
             ELSE [sum |-> Add(p.sum, c.arg), last |-> p.sum]

\* The calls so far began with next().
BeganWithNext == Len(trace) >= 1 /\ trace[1].kind = "next"

\* C12 as claimed: on the adder with throw, every throw(e) of an error made
\* after the first next() returns {done: false, value: s} without raising,
\* s being the sum before the most recent addition, or initialValue when
\* nothing has been added yet.
InvC12_ThrowRevertsToSumBeforeLastAddition ==
    (sm.kind = "adder" /\ BeganWithNext) =>
        \A k \in 2..Len(trace) :
            (trace[k].kind = "throw" /\ trace[k].arg.t = "err") =>
                trace[k].sm = Ret(FALSE, Ledger(k).sum)

\* C13 as claimed: every call returns the same {done, value}, or raises the
\* same error, on the state-machine adder and on the generator adder.
InvC13_AdderMatchesGenerator ==
    sm.kind = "adder" =>
        \A k \in 1..Len(trace) : trace[k].sm = trace[k].gn


----------------------------------------------------------------------------
\* v1 + ... + vi added to the initial value: the inputs of calls 2..k of the
\* trace, summed from the left as + does.
RECURSIVE SumOfInputs(_)
SumOfInputs(k) ==
    IF k <= 1 THEN sm.m.initialValue ELSE Add(SumOfInputs(k - 1), trace[k].arg)

\* No fault so far: every call was next.
OnlyNext == \A k \in 1..Len(trace) : trace[k].kind = "next"

\* C14: on either adder, with only next calls, the first call returns
\* initialValue whatever its input, the i-th later call returns initialValue
\* plus the first i later inputs, and done is always false.
InvC14_AdderReturnsRunningSum ==
    (sm.kind \in {"adder", "adderPlain"} /\ OnlyNext) =>
        \A k \in 1..Len(trace) : trace[k].sm = Ret(FALSE, SumOfInputs(k))

\* C14 witness: next(4), next(1), next(2), next(4) on the adder without throw
\* begun at 1 have returned 1, 2, 4, 8.
WitC14_FourCallsSummed ==
    /\ sm.kind = "adderPlain" /\ sm.m.initialValue = Num(1)
    /\ Len(trace) = 4
    /\ [k \in 1..4 |-> trace[k].arg] = <<Num(4), Num(1), Num(2), Num(4)>>
    /\ [k \in 1..4 |-> trace[k].sm.value] = <<Num(1), Num(2), Num(4), Num(8)>>


----------------------------------------------------------------------------
\* What the k-th counter.next() is to return, by the README's table.
CountsExpected(k) ==
    IF k <= 3 THEN Ret(FALSE, Add(sm.m.start, Num(k)))
    ELSE IF k = 4 THEN Ret(TRUE, Add(sm.m.start, Num(4)))
         ELSE Ret(TRUE, Undefined)

\* C15: every counter.next() returns the same on the state machine and on
\* the generator: start+1, start+2, start+3 with done false, start+4 with
\* done true, then undefined with done true; once done is true it stays true.
InvC15_CountsMatchesGenerator ==
    sm.kind = "counts" =>
        /\ \A k \in 1..Len(trace) :
              /\ trace[k].sm = trace[k].gn
              /\ trace[k].sm = CountsExpected(k)
        /\ \A j, k \in 1..Len(trace) :
              (j < k /\ trace[j].sm.done) => trace[k].sm.done

\* C15 witness: counts(1) has been called past its end: the fourth call
\* returned {value: 5, done: true}, the fifth {value: undefined, done: true}.
WitC15_CalledPastTheEnd ==
    /\ sm.kind = "counts" /\ sm.m.start = Num(1)
    /\ Len(trace) >= 5
    /\ trace[4].sm = Ret(TRUE, Num(5))
    /\ trace[5].sm = Ret(TRUE, Undefined)

----------------------------------------------------------------------------
\* What the printer is to have logged after its first k calls.
RECURSIVE PrinterExpected(_)
PrinterExpected(k) ==
    IF k = 0 THEN <<>>
    ELSE LET before == PrinterExpected(k - 1)
         IN  CASE k = 1 -> Append(before, Starting)
               [] k \in {2, 3} -> Append(before, trace[k].arg)
               [] k = 4 -> before \o <<trace[k].arg, WeAreDone>>
               [] OTHER -> before

----------------------------------------------------------------------------
\* C18: throw(err) with a truthy err on the adder still in state 'initial'
\* raises err to the caller and leaves state, sum, lastSum and temp as they
\* were; and next() in state 'initial' returns initialValue.
ThmC18_ThrowInInitialRaisesAndKeepsState ==
    [][(sm.kind = "adder" /\ sm.m.state = "initial" /\ trace' # trace) =>
          LET c == trace'[Len(trace')]
          IN  /\ (c.kind = "throw" /\ Truthy(c.arg)) =>
                    /\ c.sm = Raise(c.arg)
                    /\ sm'.m = sm.m
              /\ (c.kind = "next" /\ c.arg = Undefined) =>
                    c.sm = Ret(FALSE, sm.m.initialValue)]_vars

\* C18 witness: throw(E), throw(E), next() on adder(1): both throws raised E,
\* and next() returned 1.
WitC18_ThrowThenNext ==
    /\ sm.kind = "adder" /\ sm.m.initialValue = Num(1)
    /\ Len(trace) = 3
    /\ trace[1].kind = "throw" /\ trace[1].sm = Raise(Err(1))
    /\ trace[2].kind = "throw" /\ trace[2].sm = Raise(Err(1))
    /\ trace[3].kind = "next" /\ trace[3].sm = Ret(FALSE, Num(1))


----------------------------------------------------------------------------
\* C19: the first resumption is made inside the call of co(), with undefined
\* and before any settlement has been delivered; a later resumption is made
\* only by the job that delivers the settlement of the promise the routine
\* yielded at the resumption just before, one resumption a job.
ThmC19_FirstResumptionInCallLaterOnesFromCallbacks ==
    /\ [](\A d \in Drivers :
            /\ ~called[d] => resumptions[d] = <<>>
            /\ called[d] =>
                  /\ Len(resumptions[d]) >= 1
                  /\ resumptions[d][1] = [kind |-> "next", arg |-> Undefined])
    /\ [][\A d \in Drivers :
            /\ (~called[d] /\ called'[d]) =>
                  /\ Len(resumptions'[d]) = 1
                  /\ \A i \in 1..Len(ops'[d]) : ops'[d][i].fired = 0
            /\ (called[d] /\ resumptions'[d] # resumptions[d]) =>
                  /\ jobs # <<>>
                  /\ Head(jobs) = [d |-> d, op |-> Len(resumptions[d])]
                  /\ ops[d][Len(resumptions[d])].state # "pending"
                  /\ ops[d][Len(resumptions[d])].fired = 0
                  /\ Len(resumptions'[d]) = Len(resumptions[d]) + 1
                  /\ SubSeq(resumptions'[d], 1, Len(resumptions[d])) = resumptions[d]]_vars

\* C19 witness: the simple co() has made three resumptions, the second and
\* third from the callbacks of the first and second promise, and now waits
\* for the third promise.
WitC19_TwoResumptionsFromCallbacks ==
    \E d \in Drivers :
        /\ mode[d] = "simple" /\ Len(resumptions[d]) = 3 /\ Len(ops[d]) = 3
        /\ ops[d][1].fired = 1 /\ ops[d][2].fired = 1
        /\ ops[d][3].state = "pending" /\ ops[d][3].subs = 1
        /\ jobs = <<>>

----------------------------------------------------------------------------
\* The settlements delivered to the routine of driver d: the promises whose
\* reaction job has run a callback of the driver.  The simple co() passes no
\* rejection callback to then().
Delivered(d) ==
    {i \in 1..Len(ops[d]) :
        ops[d][i].fired >= 1 /\ (mode[d] = "error" \/ ops[d][i].state = "fulfilled")}

\* C20: the driver subscribes once to each promise it is yielded and never
\* again; the resumptions made are one more than the settlements delivered,
\* and no settlement is delivered twice.
InvC20_SubscribedOnceNoRetry ==
    \A d \in Drivers :
        called[d] =>
            /\ Len(resumptions[d]) = 1 + Cardinality(Delivered(d))
            /\ \A i \in 1..Len(ops[d]) :
                  /\ ops[d][i].subs = 1
                  /\ ops[d][i].fired <= 1
                  /\ Cardinality({k \in 1..Len(jobs) : jobs[k] = [d |-> d, op |-> i]})
                        + ops[d][i].fired <= 1

\* C20 witness: the error-handling co() has been delivered a rejection and
\* then a fulfilment, and has made three resumptions.
WitC20_RejectionThenFulfilmentDelivered ==
    \E d \in Drivers :
        /\ mode[d] = "error" /\ Delivered(d) = {1, 2}
        /\ ops[d][1].state = "rejected" /\ ops[d][2].state = "fulfilled"
        /\ Len(resumptions[d]) = 3


----------------------------------------------------------------------------
\* The generator of driver d had it been given its first k resumptions and
\* nothing else: the routine driven alone.
RECURSIVE Alone(_, _)
Alone(d, k) ==
    IF k = 0
    THEN generator
    ELSE Resume(gen[d], Alone(d, k - 1), resumptions[d][k].kind, resumptions[d][k].arg,
                PromiseRef(k)).g

\* What driver d's own promises tell it to pass at resumption k.
OwnInput(d, k) ==
    IF k = 1
    THEN [kind |-> "next", arg |-> Undefined]
    ELSE [kind |-> IF ops[d][k - 1].state = "rejected" THEN "throw" ELSE "next",
          arg |-> ops[d][k - 1].value]

\* C17: with two calls of co() interleaved on one event loop, a call makes
\* one generator, once; every resumption of a driver passes what the
\* driver's own promise settled with; the generator of each driver is where
\* its own resumptions alone put it; and a step that resumes one driver's
\* routine leaves the other's routine and resumptions as they were.
ThmC17_DrivesDoNotInterfere ==
    /\ [](\A d \in Drivers :
            /\ ~called[d] => (g[d] = generator /\ resumptions[d] = <<>> /\ ops[d] = <<>>)
            /\ called[d] =>
                  /\ \A k \in 1..Len(resumptions[d]) :
                        /\ k - 1 <= Len(ops[d])
                        /\ resumptions[d][k] = OwnInput(d, k)
                  /\ g[d] = Alone(d, Len(resumptions[d])))
    /\ [][\A d \in Drivers :
            /\ called[d] => gen'[d] = gen[d]
            /\ resumptions'[d] # resumptions[d] =>
                  \A e \in Drivers \ {d} :
                      /\ g'[e] = g[e]
                      /\ resumptions'[e] = resumptions[e]
                      /\ ops'[e] = ops[e]
                      /\ result'[e] = result[e]]_vars

\* C17 witness: both drives are under way at once, each resumed a second
\* time with the outcome of its own first promise (a value for one, a fault
\* for the other) and each waiting for its own second promise.
WitC17_TwoDrivesUnderWay ==
    /\ \A d \in Drivers :
          /\ called[d] /\ Len(resumptions[d]) = 2 /\ Len(ops[d]) = 2
          /\ ops[d][2].state = "pending" /\ ops[d][2].subs = 1
    /\ resumptions["a"][2] = [kind |-> "next", arg |-> Num(1)]
    /\ resumptions["b"][2] = [kind |-> "throw", arg |-> Err(1)]
    /\ g["a"].acc = 1 /\ g["b"].acc = 0

----------------------------------------------------------------------------
\* A promise the routine of driver d yielded has been rejected.
SomeRejected(d) == \E i \in 1..Len(ops[d]) : ops[d][i].state = "rejected"

\* C21: simple co(): a promise the routine yielded that is rejected is the
\* last one it yielded; from then on no step resumes the routine, by g.next
\* or by g.throw, and the promise co() returned is and stays pending.
ThmC21_SimpleStallsOnRejectedPromise ==
    /\ [](\A d \in Drivers :
            (called[d] /\ mode[d] = "simple") =>
                \A i \in 1..Len(ops[d]) :
                    ops[d][i].state = "rejected" =>
                        /\ i = Len(ops[d])
                        /\ Len(resumptions[d]) = i
                        /\ \A k \in 1..i : resumptions[d][k].kind = "next"
                        /\ ~g[d].done
                        /\ result[d] = [state |-> "pending", value |-> Undefined])
    /\ [][\A d \in Drivers :
            (called[d] /\ mode[d] = "simple" /\ SomeRejected(d)) =>
                /\ resumptions'[d] = resumptions[d]
                /\ g'[d] = g[d]
                /\ result'[d] = result[d]]_vars

\* C21 witness: the simple co() was resumed twice, its second promise was
\* rejected and the reaction job has run: the fault went nowhere, the drive
\* is at rest and the promise co() returned is pending.
WitC21_RejectionDroppedAtRest ==
    \E d \in Drivers :
        /\ mode[d] = "simple" /\ Len(ops[d]) = 2
        /\ ops[d][1].state = "fulfilled"
        /\ ops[d][2].state = "rejected" /\ ops[d][2].fired = 1
        /\ unhandled[d] = <<ops[d][2].value>>
        /\ jobs = <<>>
        /\ result[d].state = "pending"

----------------------------------------------------------------------------
\* C22: simple co(): a fault the routine raises at its first resumption
\* rejects the promise co() returned with that fault; a fault it raises at a
\* later resumption leaves that promise pending, and pending it stays.
ThmC22_SimpleFaultOnlyFirstResumptionRejects ==
    /\ [](\A d \in Drivers :
            (mode[d] = "simple" /\ ThrewByScript(d)) =>
                IF Len(resumptions[d]) = 1
                THEN result[d] = [state |-> "rejected", value |-> RoutineFault]
                ELSE /\ result[d] = [state |-> "pending", value |-> Undefined]
                     /\ unhandled[d] = <<RoutineFault>>)
    /\ [][\A d \in Drivers :
            (mode[d] = "simple" /\ ThrewByScript(d)) =>
                /\ result'[d] = result[d]
                /\ resumptions'[d] = resumptions[d]]_vars

\* C22 witness: the routine raised its fault at the third resumption, run
\* from a callback; the promise co() returned is pending.
WitC22_FaultInCallbackLost ==
    \E d \in Drivers :
        /\ mode[d] = "simple" /\ ThrewByScript(d)
        /\ Len(resumptions[d]) = 3
        /\ result[d].state = "pending"
        /\ jobs = <<>>


----------------------------------------------------------------------------
\* sum, lastSum and temp of the adder after the first k calls of the trace,
\* worked out again from the closure the adder began with.
RECURSIVE AdderAfter(_)
AdderAfter(k) ==
    IF k = 0
    THEN adder(sm.m.initialValue)
    ELSE IF trace[k].kind = "throw"
         THEN adderThrow(AdderAfter(k - 1), trace[k].arg).m
         ELSE adderNext(AdderAfter(k - 1), trace[k].arg).m

\* C23 as claimed: on the adder in state 'loop', of two throw(e) calls made
\* one after the other with the same e, the second returns what the first
\* returned and leaves sum, lastSum and temp as the first left them.
InvC23_ThrowTwiceSameAsOnce ==
    sm.kind = "adder" =>
        \A k \in 2..Len(trace) :
            (/\ trace[k - 1].kind = "throw" /\ trace[k].kind = "throw"
             /\ trace[k - 1].arg = trace[k].arg
             /\ AdderAfter(k - 2).state = "loop") =>
                /\ trace[k].sm = trace[k - 1].sm
                /\ AdderAfter(k) = AdderAfter(k - 1)

----------------------------------------------------------------------------
\* C24: throw(err) on the adder is a fault only for a truthy err.  With a
\* falsy err (undefined, 0) it does what next(undefined) does: in state
\* 'initial' it returns initialValue and raises nothing, in state 'loop' it
\* adds undefined to the sum, which is then NaN and not lastSum.  With an
\* error it raises in 'initial' and reverts to lastSum in 'loop'.
ThmC24_FalsyThrowIsNextUndefined ==
    [][(sm.kind = "adder" /\ trace' # trace /\ trace'[Len(trace')].kind = "throw") =>
          LET c == trace'[Len(trace')]
          IN  /\ c.arg \in {Undefined, Num(0)} =>
                    /\ c.sm = adderNext(sm.m, Undefined).r
                    /\ sm'.m = adderNext(sm.m, Undefined).m
                    /\ c.sm.thrown = NoFault
                    /\ sm.m.state = "initial" => c.sm = Ret(FALSE, sm.m.initialValue)
                    /\ sm.m.state = "loop" =>
                          /\ c.sm = Ret(FALSE, NaN)
                          /\ sm'.m.sum = NaN
                          /\ sm'.m.lastSum = sm.m.temp
              /\ c.arg.t = "err" =>
                    /\ sm.m.state = "initial" => c.sm = Raise(c.arg)
                    /\ sm.m.state = "loop" => c.sm = Ret(FALSE, sm.m.lastSum)]_vars

\* C24 witness: next(), next(1), throw(0) on adder(0): the throw returned
\* NaN, the sum is NaN and lastSum is the 1 the sum was.
WitC24_ThrowZeroAdds ==
    /\ sm.kind = "adder" /\ sm.m.initialValue = Num(0)
    /\ Len(trace) = 3
    /\ trace[2].kind = "next" /\ trace[2].arg = Num(1)
    /\ trace[3].kind = "throw" /\ trace[3].arg = Num(0)
    /\ trace[3].sm = Ret(FALSE, NaN)
    /\ sm.m.sum = NaN /\ sm.m.lastSum = Num(1)

----------------------------------------------------------------------------
\* C25: on both adders state is 'initial' or 'loop' and done is false; no
\* call has returned done = true; and a call made in state 'loop' leaves
\* the state 'loop'.
ThmC25_AdderNeverFinishes ==
    /\ [](sm.kind \in {"adder", "adderPlain"} =>
            /\ sm.m.state \in {"initial", "loop"}
            /\ sm.m.done = FALSE
            /\ \A k \in 1..Len(trace) : ~trace[k].sm.done)
    /\ [][(sm.kind \in {"adder", "adderPlain"} /\ sm.m.state = "loop") =>
            sm'.m.state = "loop"]_vars

\* C25 witness: five calls on the adder with throw, a fault among them
\* taken in state 'loop', and the state is 'loop'.
WitC25_LoopAfterFaults ==
    /\ sm.kind = "adder" /\ Len(trace) = 5
    /\ trace[1].kind = "next"
    /\ trace[3].kind = "throw" /\ trace[3].arg = Err(1)
    /\ trace[5].kind = "next"
    /\ sm.m.state = "loop" /\ ~sm.m.done

====
